---------------------------- MODULE Spec2Model ----------------------------
(***************************************************************************)
(* Model of the "Advanced Note Taking System" (src/ants.py): the inverted  *)
(* index (SearchIndex), the Note Store (NotesApp.notes), the notes table   *)
(* of ants.db, the displayed view and the edit session, driven by the UI   *)
(* callbacks of NotesApp and CustomAlert.                                  *)
(*                                                                         *)
(* A Python str is a sequence of one-character strings, so that strip,     *)
(* lower, split, re.findall(r'\w+') and split(": ", 1) are computed on the *)
(* characters.  A dict is a function whose DOMAIN is the set of keys.      *)
(* A handler that raises stops where the exception is raised: the state it *)
(* leaves is what the statements before that point wrote.                  *)
(***************************************************************************)
EXTENDS Integers, Sequences, FiniteSets, TLC

(***************************************************************************)
(* Bounds of the model.                                                    *)
(***************************************************************************)
\* the clock runs over 0..MaxTime
MaxTime == 1
\* most rows the notes table (and the Note Store) may hold
MaxRows == 2
\* most CustomAlert subviews open at once
MaxAlerts == 1
\* most distinct triples the content index may hold
MaxIndexed == 2

(***************************************************************************)
(* Characters and strings.                                                 *)
(***************************************************************************)
EmptyStr == << >>

\* ord(c) for the characters the model types
Ord(c) ==
    CASE c = " " -> 32 [] c = "-" -> 45 [] c = "0" -> 48 [] c = "1" -> 49
      [] c = "2" -> 50 [] c = "3" -> 51 [] c = "4" -> 52 [] c = "5" -> 53
      [] c = "6" -> 54 [] c = "7" -> 55 [] c = "8" -> 56 [] c = "9" -> 57
      [] c = ":" -> 58 [] c = "A" -> 65 [] c = "B" -> 66 [] c = "X" -> 88
      [] c = "Y" -> 89 [] c = "_" -> 95 [] c = "a" -> 97 [] c = "b" -> 98
      [] c = "x" -> 120 [] c = "y" -> 121

\* str.isspace for one character
IsSpace(c) == c = " "

\* whether r'\w' matches the character
IsWordChar(c) ==
    \/ (48 <= Ord(c) /\ Ord(c) <= 57)
    \/ (65 <= Ord(c) /\ Ord(c) <= 90)
    \/ (97 <= Ord(c) /\ Ord(c) <= 122)
    \/ c = "_"

LowerChar(c) ==
    CASE c = "A" -> "a" [] c = "B" -> "b" [] c = "X" -> "x" [] c = "Y" -> "y"
      [] OTHER -> c

\* str.lower
Lower(s) == [i \in 1..Len(s) |-> LowerChar(s[i])]

SetMin(S) == CHOOSE m \in S : \A k \in S : m <= k
SetMax(S) == CHOOSE m \in S : \A k \in S : k <= m

\* str.strip
Strip(s) ==
    LET keep == {i \in 1..Len(s) : ~IsSpace(s[i])}
    IN  IF keep = {} THEN EmptyStr ELSE SubSeq(s, SetMin(keep), SetMax(keep))

\* the maximal runs of characters satisfying Keep, as a set
Runs(s, Keep(_)) ==
    {SubSeq(s, i, j) : <<i, j>> \in
        {p \in (1..Len(s)) \X (1..Len(s)) :
            /\ p[1] <= p[2]
            /\ \A k \in p[1]..p[2] : Keep(s[k])
            /\ (p[1] = 1 \/ ~Keep(s[p[1] - 1]))
            /\ (p[2] = Len(s) \/ ~Keep(s[p[2] + 1]))}}

\* set(re.findall(r'\w+', s.lower()))
WordTokens(s) == Runs(Lower(s), IsWordChar)

NotSpace(c) == ~IsSpace(c)

\* set(s.lower().split())
SplitTokens(s) == Runs(Lower(s), NotSpace)

\* a < b for Python strings (code point order)
RECURSIVE StrLess(_, _)
StrLess(a, b) ==
    IF b = EmptyStr THEN FALSE
    ELSE IF a = EmptyStr THEN TRUE
    ELSE IF Ord(a[1]) # Ord(b[1]) THEN Ord(a[1]) < Ord(b[1])
    ELSE StrLess(Tail(a), Tail(b))

\* sorted(keys) for a set of strings
RECURSIVE SortedStrs(_)
SortedStrs(S) ==
    IF S = {} THEN << >>
    ELSE LET m == CHOOSE x \in S : \A y \in S \ {x} : StrLess(x, y)
         IN  <<m>> \o SortedStrs(S \ {m})

\* every order in which a set may be iterated
RECURSIVE Perms(_)
Perms(S) ==
    IF S = {} THEN {<< >>}
    ELSE UNION {{<<x>> \o p : p \in Perms(S \ {x})} : x \in S}

Range(f) == {f[i] : i \in DOMAIN f}

(***************************************************************************)
(* Timestamps and the "<timestamp>: <text>" encoding.                      *)
(***************************************************************************)
Digits == <<"0", "1", "2", "3", "4", "5", "6", "7", "8", "9">>

\* datetime.strftime(DATESTR): the clock value (a day, two digits) written
\* in the timestamp format, which holds ':' but never ": "
Strftime(t) == <<Digits[(t \div 10) + 1], Digits[(t % 10) + 1], ":", "0">>

IsTimestamp(ts) == \E t \in 0..99 : Strftime(t) = ts

\* datetime.strptime(ts, DATESTR), for a string in the format
Strptime(ts) == (Ord(ts[1]) - 48) * 10 + (Ord(ts[2]) - 48)

\* f"{timestamp}: {comment}"
Encode(ts, text) == ts \o <<":", " ">> \o text

\* a split at the last ": " (rsplit)
SplitAtLast(s) ==
    LET at == {i \in 1..(Len(s) - 1) : s[i] = ":" /\ s[i + 1] = " "}
    IN  IF at = {} THEN <<s>>
        ELSE <<SubSeq(s, 1, SetMax(at) - 1), SubSeq(s, SetMax(at) + 2, Len(s))>>

\* s.split(": ", 1)
SplitOnce(s) ==
    LET at == {i \in 1..(Len(s) - 1) : s[i] = ":" /\ s[i + 1] = " "}
    IN  IF at = {} THEN <<s>>
        ELSE <<SubSeq(s, 1, SetMin(at) - 1), SubSeq(s, SetMin(at) + 2, Len(s))>>


(***************************************************************************)
(* SearchIndex.  index and id_index are sets of <<token, posting>> pairs:  *)
(* the posting set of a token is the set of postings paired with it, and a *)
(* key whose set is empty reads like a missing key (dict.get(w, set())).   *)
(***************************************************************************)
\* self.index.get(w, set())
Postings(idx, w) == {p[2] : p \in {q \in idx : q[1] = w}}

\* idx with the set stored under w replaced by S (an in-place update of it)
SetPostings(idx, w, S) == {q \in idx : q[1] # w} \cup {<<w, x>> : x \in S}

\* an add_entry that stores the new posting in place of the ones a key holds
AddEntryReplaces(si, identifier, timestamp, comment) ==
    [index    |-> {q \in si.index : q[1] \notin WordTokens(comment)} \cup
                    {<<w, <<identifier, timestamp, comment>>>> : w \in WordTokens(comment)},
     id_index |-> {q \in si.id_index : q[1] \notin SplitTokens(identifier)} \cup
                    {<<part, identifier>> : part \in SplitTokens(identifier)}]

\* SearchIndex.add_entry on (index, id_index)
AddEntry(si, identifier, timestamp, comment) ==
    [index    |-> si.index \cup
                    {<<w, <<identifier, timestamp, comment>>>> : w \in WordTokens(comment)},
     id_index |-> si.id_index \cup
                    {<<part, identifier>> : part \in SplitTokens(identifier)}]

\* the orders sorted(words, key=len of posting set) may give: ties keep the
\* set's iteration order, which is any order
SortedWords(idx, words) ==
    {o \in Perms(words) :
        \A i \in 1..(Len(o) - 1) :
            Cardinality(Postings(idx, o[i])) <= Cardinality(Postings(idx, o[i + 1]))}

\* a search that stops after the rarest word
IntersectNothing(idx, results, rest) == results

\* the loop of search over sorted_words[1:]: results &= word_results, with
\* the break on an empty intersection
RECURSIVE Intersect(_, _, _)
Intersect(idx, results, rest) ==
    IF rest = << >> THEN results
    ELSE LET r == results \cap Postings(idx, rest[1])
         IN  IF r = {} THEN r ELSE Intersect(idx, r, Tail(rest))

\* id_filter: None or a string
NoFilter == <<"None">>

\* the truth value Python gives a string or None
Truthy(x) == x # NoFilter /\ x # EmptyStr

\* SearchIndex.search: the set of outcomes [results, index], one per order
\* sorted() may give.  results is the set object stored under sorted_words[0],
\* so results &= ... updates the index
SearchWith(idx, query, id_filter) ==
    LET words == WordTokens(query)
    IN  IF query = EmptyStr \/ words = {}
        THEN {[results |-> {}, index |-> idx]}
        ELSE {LET first == Postings(idx, o[1])
                  r == Intersect(idx, first, Tail(o))
                  after == IF Len(o) > 1 THEN SetPostings(idx, o[1], r) ELSE idx
              IN  IF first = {}
                  THEN [results |-> {}, index |-> idx]
                  ELSE [results |-> IF Truthy(id_filter)
                                    THEN {x \in r : x[1] = id_filter}
                                    ELSE r,
                        index |-> after]
              : o \in SortedWords(idx, words)}

\* a search_ids that passes over the words the index does not hold
RECURSIVE IntersectAllSkipsMissing(_, _, _)
IntersectAllSkipsMissing(idx, results, rest) ==
    IF rest = << >> THEN results
    ELSE IntersectAllSkipsMissing(idx,
            IF Postings(idx, rest[1]) = {} THEN results
            ELSE results \cap Postings(idx, rest[1]),
            Tail(rest))

\* the loop of search_ids: results &= word_results for every word
RECURSIVE IntersectAll(_, _, _)
IntersectAll(idx, results, rest) ==
    IF rest = << >> THEN results
    ELSE IntersectAll(idx, results \cap Postings(idx, rest[1]), Tail(rest))

\* SearchIndex.search_ids: the set of outcomes [results, id_index], one per
\* iteration order of words; results is the set stored under next(iter(words))
SearchIdsWith(ididx, query) ==
    LET words == WordTokens(query)
    IN  IF query = EmptyStr \/ words = {}
        THEN {[results |-> {}, id_index |-> ididx]}
        ELSE {LET r == IntersectAll(ididx, Postings(ididx, o[1]), o)
              IN  [results |-> r, id_index |-> SetPostings(ididx, o[1], r)]
              : o \in Perms(words)}

(***************************************************************************)
(* The state of a running NotesApp.                                        *)
(***************************************************************************)
VARIABLES
    db,                         \* the rows (id, timestamp, comment) of table notes, in rowid order
    notes,                      \* NotesApp.notes: identifier -> list of "<timestamp>: <text>"
    index,                      \* search_index.index
    id_index,                   \* search_index.id_index
    displayed_notes,            \* NotesApp.displayed_notes
    displayed_keys,             \* list(displayed_notes.keys()) (read only while a comment search is active)
    displayed_shared,           \* the keys whose displayed list is the very list object notes holds
    comments,                   \* notes_list.data_source.comments: << >> when the attribute is absent, else <<list>>
    comments_shared,            \* <<id>> when comments is the very list object notes[id], else << >>
    id_input,                   \* id_input.text
    comment_input,              \* comment_input.text
    updating_comment_index,     \* None or an index into notes[identifier]
    is_comment_search_active,
    timeframe,                  \* timeframe_control.selected_index
    dynamic_action,             \* dynamic_button.action: "filter_notes" or "save_note"
    alerts,                     \* the number of CustomAlert subviews open
    now,                        \* datetime.now(), in days
    buffer,                     \* ClipboardBuffer.buffer (advanced_clipboard.py)
    saved,                      \* the list in clipboard_buffer.json, NoFile while the file is absent
    ret                         \* the call record of the specifications of one class on its own

vars == <<db, notes, index, id_index, displayed_notes, displayed_keys, displayed_shared,
          comments, comments_shared, id_input, comment_input, updating_comment_index,
          is_comment_search_active, timeframe, dynamic_action, alerts, now, buffer, saved,
          ret>>

\* updating_comment_index = None
None == -1

\* timedelta None
NoDelta == 0
DayDelta == 1
WeekDelta == 7
MonthDelta == 30

EmptyDict == [k \in {} |-> << >>]
DictSet(d, k, v) == [x \in DOMAIN d \cup {k} |-> IF x = k THEN v ELSE d[x]]
DictDel(d, k) == [x \in DOMAIN d \ {k} |-> d[x]]

\* list.index(x): the 0-based place of the first x, for x in the list
ListIndex(lst, x) == SetMin({i \in 1..Len(lst) : lst[i] = x}) - 1

\* del lst[i], i 0-based
ListDel(lst, i) == SubSeq(lst, 1, i) \o SubSeq(lst, i + 2, Len(lst))

\* the running state as one record, and back
Cur ==
    [db |-> db, notes |-> notes, index |-> index, id_index |-> id_index,
     displayed_notes |-> displayed_notes, displayed_keys |-> displayed_keys,
     displayed_shared |-> displayed_shared, comments |-> comments,
     comments_shared |-> comments_shared, id_input |-> id_input,
     comment_input |-> comment_input,
     updating_comment_index |-> updating_comment_index,
     is_comment_search_active |-> is_comment_search_active,
     timeframe |-> timeframe, dynamic_action |-> dynamic_action,
     alerts |-> alerts, now |-> now, exc |-> ""]

InstallNotes(s) ==
    /\ db' = s.db
    /\ notes' = s.notes
    /\ index' = s.index
    /\ id_index' = s.id_index
    /\ displayed_notes' = s.displayed_notes
    /\ displayed_keys' = s.displayed_keys
    /\ displayed_shared' = s.displayed_shared
    /\ comments' = s.comments
    /\ comments_shared' = s.comments_shared
    /\ id_input' = s.id_input
    /\ comment_input' = s.comment_input
    /\ updating_comment_index' = s.updating_comment_index
    /\ is_comment_search_active' = s.is_comment_search_active
    /\ timeframe' = s.timeframe
    /\ dynamic_action' = s.dynamic_action
    /\ alerts' = s.alerts
    /\ now' = s.now
    /\ UNCHANGED <<buffer, saved>>

Install(s) == InstallNotes(s) /\ ret' = ret

Raise(s, e) == [s EXCEPT !.exc = e]

(***************************************************************************)
(* Loading, filtering and saving.                                          *)
(***************************************************************************)
\* the loop of load_notes over cursor.fetchall()
RECURSIVE LoadRows(_, _, _)
LoadRows(rows, nts, si) ==
    IF rows = << >> THEN [notes |-> nts, si |-> si]
    ELSE LET r == rows[1]
             old == IF r[1] \in DOMAIN nts THEN nts[r[1]] ELSE << >>
         IN  LoadRows(Tail(rows),
                      DictSet(nts, r[1], Append(old, Encode(r[2], r[3]))),
                      AddEntry(si, r[1], r[2], r[3]))

\* NotesApp.load_notes: notes is rebuilt from the table, the index is added to
LoadNotes(s) ==
    LET got == LoadRows(s.db, EmptyDict, [index |-> s.index, id_index |-> s.id_index])
    IN  [s EXCEPT !.notes = got.notes,
                  !.index = got.si.index,
                  !.id_index = got.si.id_index,
                  !.displayed_notes = got.notes,
                  !.displayed_keys = SortedStrs(DOMAIN got.notes),
                  !.displayed_shared = DOMAIN got.notes,
                  !.comments_shared = << >>]

\* a get_timeframe_delta with the deltas of Day and Week exchanged
GetTimeframeDeltaSwapped(tf) ==
    IF tf = 1 THEN WeekDelta
    ELSE IF tf = 2 THEN DayDelta
    ELSE IF tf = 3 THEN MonthDelta
    ELSE NoDelta

\* NotesApp.get_timeframe_delta
GetTimeframeDelta(tf) ==
    IF tf = 1 THEN DayDelta
    ELSE IF tf = 2 THEN WeekDelta
    ELSE IF tf = 3 THEN MonthDelta
    ELSE NoDelta

\* NotesApp._is_within_timeframe
IsWithinTimeframe(timestamp_str, delta, t) ==
    IF delta = NoDelta THEN TRUE ELSE t - Strptime(timestamp_str) < delta

\* the list comprehension of _filter_comments_by_timeframe
RECURSIVE KeepWithin(_, _, _)
KeepWithin(cs, delta, t) ==
    IF cs = << >> THEN << >>
    ELSE (IF t - Strptime(SplitOnce(cs[1])[1]) < delta THEN <<cs[1]>> ELSE << >>)
         \o KeepWithin(Tail(cs), delta, t)

\* NotesApp._filter_comments_by_timeframe
FilterCommentsByTimeframe(cs, delta, t) ==
    IF delta = NoDelta THEN cs ELSE KeepWithin(cs, delta, t)

\* sorted(..., reverse=True) keeps equal keys in their order: x goes after
\* every element whose key is at least its own
RECURSIVE InsertDesc(_, _)
InsertDesc(sorted, x) ==
    IF sorted = << >> THEN <<x>>
    ELSE IF Strptime(SplitOnce(sorted[1])[1]) >= Strptime(SplitOnce(x)[1])
         THEN <<sorted[1]>> \o InsertDesc(Tail(sorted), x)
         ELSE <<x>> \o sorted

RECURSIVE SortFrom(_, _)
SortFrom(sorted, rest) ==
    IF rest = << >> THEN sorted ELSE SortFrom(InsertDesc(sorted, rest[1]), Tail(rest))

\* NotesApp.sort_comments
SortComments(cs) == SortFrom(<< >>, cs)

\* NotesApp.update_notes_list
UpdateNotesList(s) ==
    IF DOMAIN s.displayed_notes # {} /\ s.id_input \in DOMAIN s.displayed_notes
    THEN [s EXCEPT !.comments = <<s.displayed_notes[s.id_input]>>,
                   !.comments_shared = IF s.id_input \in s.displayed_shared
                                       THEN <<s.id_input>> ELSE << >>]
    ELSE [s EXCEPT !.comments = << >>, !.comments_shared = << >>]

\* the identifier branches of filter_notes, over the identifiers the loop has
\* reached: each in-window list is stored unless it is empty
ShowIds(s, ids, delta) ==
    LET lists == [i \in ids |-> FilterCommentsByTimeframe(s.notes[i], delta, s.now)]
        shown == {i \in ids : lists[i] # << >>}
    IN  [s EXCEPT !.displayed_notes = [i \in shown |-> lists[i]],
                  !.displayed_keys = SortedStrs(shown),
                  !.displayed_shared = IF delta = NoDelta THEN shown ELSE {}]

\* the comment branch of filter_notes: the views the loop over the result set
\* may build, one per iteration order of the set
ShowResults(s, results, delta) ==
    LET inwin == {x \in results : IsWithinTimeframe(x[2], delta, s.now)}
        ids == {x[1] : x \in inwin}
        orders == [i \in ids |-> Perms({Encode(x[2], x[3]) : x \in {y \in inwin : y[1] = i}})]
        lists == {f \in [ids -> UNION {orders[i] : i \in ids}] : \A i \in ids : f[i] \in orders[i]}
    IN  {[s EXCEPT !.displayed_notes = f, !.displayed_keys = k, !.displayed_shared = {}]
            : f \in lists, k \in Perms(ids)}

\* NotesApp.filter_notes: the set of states it may leave
FilterNotes(s0) ==
    LET current_id == Strip(s0.id_input)
        comment_query == Strip(s0.comment_input)
        delta == GetTimeframeDelta(s0.timeframe)
        s == [s0 EXCEPT !.is_comment_search_active = (comment_query # EmptyStr),
                        !.displayed_notes = EmptyDict,
                        !.displayed_keys = << >>,
                        !.displayed_shared = {}]
    IN  IF comment_query # EmptyStr
        THEN UNION {{UpdateNotesList(v) : v \in ShowResults([s EXCEPT !.index = out.index],
                                                            out.results, delta)}
                    : out \in SearchWith(s.index, comment_query,
                                         IF current_id # EmptyStr THEN current_id ELSE NoFilter)}
        ELSE IF current_id # EmptyStr
        THEN UNION {LET s1 == [s EXCEPT !.id_index = out.id_index]
                        known == out.results \cap DOMAIN s1.notes
                    IN  IF known = out.results
                        THEN {UpdateNotesList(ShowIds(s1, known, delta))}
                        ELSE {Raise(ShowIds(s1, reached, delta), "KeyError")
                                : reached \in SUBSET known}
                    : out \in SearchIdsWith(s.id_index, current_id)}
        ELSE {UpdateNotesList(ShowIds(s, DOMAIN s.notes, delta))}

\* the executemany parameters of save_notes_to_db
RowsOf(identifier, cs) == [i \in 1..Len(cs) |-> <<identifier>> \o SplitOnce(cs[i])]

RECURSIVE RowsNotOf(_, _)
RowsNotOf(rows, identifier) ==
    IF rows = << >> THEN << >>
    ELSE (IF rows[1][1] = identifier THEN << >> ELSE <<rows[1]>>)
         \o RowsNotOf(Tail(rows), identifier)

\* NotesApp.save_notes_to_db: DELETE the identifier's rows, INSERT its
\* comments, then load_notes
SaveNotesToDb(s, identifier, cs) ==
    LoadNotes([s EXCEPT !.db = RowsNotOf(s.db, identifier) \o RowsOf(identifier, cs)])

(***************************************************************************)
(* The callbacks.                                                          *)
(***************************************************************************)
\* NotesApp.input_change(comment_input): the dynamic button follows the fields
InputChangeComment(s) ==
    [s EXCEPT !.dynamic_action =
        IF Strip(s.id_input) # EmptyStr /\ Strip(s.comment_input) # EmptyStr
        THEN "save_note" ELSE "filter_notes"]

\* NotesApp.clear_comment_input
ClearCommentInput(s) ==
    [s EXCEPT !.comment_input = EmptyStr,
              !.updating_comment_index = None,
              !.is_comment_search_active = FALSE]

\* NotesApp.clear_id_input (displayed_notes is set again by the filter_notes
\* that follows in clear_input before anything reads it)
ClearIdInput(s) ==
    [s EXCEPT !.id_input = EmptyStr, !.comments = << >>, !.comments_shared = << >>]

\* NotesApp.clear_input
ClearInput(s) ==
    LET s1 == IF s.comment_input # EmptyStr THEN ClearCommentInput(s)
              ELSE IF s.id_input # EmptyStr THEN ClearIdInput(s)
              ELSE s
    IN  {IF t.exc = "" THEN [t EXCEPT !.dynamic_action = "filter_notes"] ELSE t
            : t \in FilterNotes(s1)}

\* NotesApp.refresh_comments_list
RefreshCommentsList(s, identifier) ==
    IF s.comments # << >>
    THEN [s EXCEPT !.comments = <<SortComments(s.notes[identifier])>>,
                   !.comments_shared = << >>]
    ELSE s

\* the exception line 316 of perform_save raises, "" when it raises none
StampError(s, identifier, update_timestamp) ==
    IF update_timestamp THEN ""
    ELSE IF identifier \notin DOMAIN s.notes THEN "KeyError"
    ELSE IF s.updating_comment_index = None THEN "TypeError"
    ELSE IF s.updating_comment_index >= Len(s.notes[identifier]) THEN "IndexError"
    ELSE ""

\* a perform_save that stamps every comment with the current time
CommentAlwaysStamped(s, identifier, comment, update_timestamp) ==
    Encode(Strftime(s.now), comment)

\* comment_with_timestamp of perform_save
CommentWithTimestamp(s, identifier, comment, update_timestamp) ==
    IF update_timestamp THEN Encode(Strftime(s.now), comment)
    ELSE Encode(SplitOnce(s.notes[identifier][s.updating_comment_index + 1])[1], comment)

\* the exception lines 318-322 of perform_save raise, "" when they raise none
WriteError(s, identifier) ==
    IF s.updating_comment_index = None THEN ""
    ELSE IF identifier \notin DOMAIN s.notes THEN "KeyError"
    ELSE IF s.updating_comment_index >= Len(s.notes[identifier]) THEN "IndexError"
    ELSE ""

\* a perform_save that appends whatever the edit session says
WriteCommentAppends(s, identifier, comment_with_timestamp) ==
    [s EXCEPT !.notes =
                DictSet(s.notes, identifier,
                        Append(IF identifier \in DOMAIN s.notes THEN s.notes[identifier]
                               ELSE << >>,
                               comment_with_timestamp)),
              !.updating_comment_index = None]

\* lines 318-322 of perform_save: replace the comment of the edit session and
\* leave the session, or append
WriteComment(s, identifier, comment_with_timestamp) ==
    IF s.updating_comment_index # None
    THEN [s EXCEPT !.notes[identifier][s.updating_comment_index + 1] = comment_with_timestamp,
                   !.updating_comment_index = None]
    ELSE [s EXCEPT !.notes =
            DictSet(s.notes, identifier,
                    Append(IF identifier \in DOMAIN s.notes THEN s.notes[identifier] ELSE << >>,
                           comment_with_timestamp))]

\* a perform_save that appends when the edit session names no comment
PerformSaveAppendsWhenLost(s, identifier, comment, update_timestamp) ==
    IF StampError(s, identifier, update_timestamp) # ""
    THEN {Raise(s, StampError(s, identifier, update_timestamp))}
    ELSE
    LET cwt == CommentWithTimestamp(s, identifier, comment, update_timestamp)
        s1 == IF WriteError(s, identifier) # ""
              THEN WriteCommentAppends(s, identifier, cwt)
              ELSE WriteComment(s, identifier, cwt)
        s2 == RefreshCommentsList([s1 EXCEPT !.comment_input = EmptyStr], identifier)
    IN  FilterNotes(SaveNotesToDb(s2, identifier, s2.notes[identifier]))

\* NotesApp.perform_save: the set of states it may leave
PerformSave(s, identifier, comment, update_timestamp) ==
    IF StampError(s, identifier, update_timestamp) # ""
    THEN {Raise(s, StampError(s, identifier, update_timestamp))}
    ELSE IF WriteError(s, identifier) # "" THEN {Raise(s, WriteError(s, identifier))}
    ELSE
    LET s1 == WriteComment(s, identifier,
                           CommentWithTimestamp(s, identifier, comment, update_timestamp))
        s2 == RefreshCommentsList([s1 EXCEPT !.comment_input = EmptyStr], identifier)
    IN  FilterNotes(SaveNotesToDb(s2, identifier, s2.notes[identifier]))

\* NotesApp.save_note; show_custom_alert adds one CustomAlert
SaveNote(s) ==
    LET identifier == Strip(s.id_input)
        comment == Strip(s.comment_input)
    IN  IF ~(identifier # EmptyStr /\ comment # EmptyStr) THEN {s}
        ELSE IF s.updating_comment_index # None
        THEN {[s EXCEPT !.alerts = s.alerts + 1]}
        ELSE PerformSave(s, identifier, comment, TRUE)

\* CustomAlert.update_action / keep_action: save_callback, then close_alert
\* when the callback returned
AlertAction(s, update_timestamp) ==
    {IF t.exc = "" THEN [t EXCEPT !.alerts = t.alerts - 1] ELSE t
        : t \in PerformSave(s, Strip(s.id_input), Strip(s.comment_input), update_timestamp)}

\* a delete_comment that leaves the identifier of an emptied list in notes
DeleteCommentKeepsKey(s, identifier, comment_index) ==
    LET left == ListDel(s.notes[identifier], comment_index)
    IN  [s EXCEPT !.notes[identifier] = left,
                  !.displayed_notes =
                      IF identifier \in s.displayed_shared
                      THEN [s.displayed_notes EXCEPT ![identifier] = left]
                      ELSE s.displayed_notes,
                  !.comments =
                      IF s.comments_shared = <<identifier>> THEN <<left>>
                      ELSE s.comments]

\* NotesApp.delete_comment: del on the list object, which displayed_notes and
\* comments may hold too
DeleteComment(s, identifier, comment_index) ==
    LET left == ListDel(s.notes[identifier], comment_index)
        s1 == [s EXCEPT !.notes[identifier] = left,
                        !.displayed_notes =
                            IF identifier \in s.displayed_shared
                            THEN [s.displayed_notes EXCEPT ![identifier] = left]
                            ELSE s.displayed_notes,
                        !.comments =
                            IF s.comments_shared = <<identifier>> THEN <<left>>
                            ELSE s.comments]
    IN  IF left # << >> THEN s1
        ELSE [s1 EXCEPT !.notes = DictDel(s1.notes, identifier),
                        !.displayed_shared = s1.displayed_shared \ {identifier},
                        !.comments_shared = IF s1.comments_shared = <<identifier>>
                                            THEN << >> ELSE s1.comments_shared]

\* NotesApp.delete_identifier
DeleteIdentifier(s, identifier) ==
    [s EXCEPT !.notes = DictDel(s.notes, identifier),
              !.displayed_shared = s.displayed_shared \ {identifier},
              !.comments_shared = IF s.comments_shared = <<identifier>>
                                  THEN << >> ELSE s.comments_shared]

\* NotesApp.tableview_delete: the comment branch never assigns identifier, so
\* line 386 raises after delete_comment
TableviewDelete(s, section, row) ==
    IF s.comments # << >>
    THEN IF row >= Len(s.comments[1]) THEN {Raise(s, "IndexError")}
         ELSE IF s.id_input \notin DOMAIN s.notes THEN {Raise(s, "KeyError")}
         ELSE IF s.comments[1][row + 1] \notin Range(s.notes[s.id_input])
         THEN {Raise(s, "ValueError")}
         ELSE {Raise(DeleteComment(s, s.id_input,
                                   ListIndex(s.notes[s.id_input], s.comments[1][row + 1])),
                     "UnboundLocalError")}
    ELSE LET keys == SortedStrs(DOMAIN s.displayed_notes)
         IN  IF row >= Len(keys) THEN {Raise(s, "IndexError")}
             ELSE IF keys[row + 1] \notin DOMAIN s.notes THEN {Raise(s, "KeyError")}
             ELSE FilterNotes(SaveNotesToDb(DeleteIdentifier(s, keys[row + 1]),
                                            keys[row + 1], << >>))

\* NotesApp.tableview_did_select
TableviewDidSelect(s, section, row) ==
    IF s.is_comment_search_active
    THEN IF section >= Len(s.displayed_keys) THEN Raise(s, "IndexError")
         ELSE
         LET identifier == s.displayed_keys[section + 1]
             s1 == [s EXCEPT !.id_input = identifier]
         IN  IF row >= Len(s.displayed_notes[identifier]) THEN Raise(s1, "IndexError")
             ELSE
             LET selected_comment == s.displayed_notes[identifier][row + 1]
                 s2 == [s1 EXCEPT !.comment_input = SplitOnce(selected_comment)[2]]
             IN  IF identifier \notin DOMAIN s.notes THEN Raise(s2, "KeyError")
                 ELSE IF selected_comment \notin Range(s.notes[identifier])
                 THEN Raise(s2, "ValueError")
                 ELSE InputChangeComment(
                        [s2 EXCEPT !.updating_comment_index =
                                        ListIndex(s.notes[identifier], selected_comment)])
    ELSE IF s.comments # << >>
    THEN IF row >= Len(s.comments[1]) THEN Raise(s, "IndexError")
         ELSE
         LET selected_comment == s.comments[1][row + 1]
         IN  IF s.id_input \notin DOMAIN s.notes THEN Raise(s, "KeyError")
             ELSE IF selected_comment \notin Range(s.notes[s.id_input])
             THEN Raise(s, "ValueError")
             ELSE InputChangeComment(
                    [s EXCEPT !.updating_comment_index =
                                    ListIndex(s.notes[s.id_input], selected_comment),
                              !.comment_input = SplitOnce(selected_comment)[2]])
    ELSE LET keys == SortedStrs(DOMAIN s.displayed_notes)
         IN  IF row >= Len(keys) THEN Raise(s, "IndexError")
             ELSE InputChangeComment(
                    [s EXCEPT !.id_input = keys[row + 1],
                              !.comments = <<s.displayed_notes[keys[row + 1]]>>,
                              !.comments_shared =
                                  IF keys[row + 1] \in s.displayed_shared
                                  THEN <<keys[row + 1]>> ELSE << >>])

\* str.startswith
StartsWith(a, b) == Len(b) <= Len(a) /\ SubSeq(a, 1, Len(b)) = b

\* NotesApp.tableview_number_of_sections
TableviewNumberOfSections(s) ==
    IF s.is_comment_search_active /\ Cardinality(DOMAIN s.displayed_notes) > 1
    THEN Cardinality(DOMAIN s.displayed_notes)
    ELSE 1

\* NotesApp.tableview_number_of_rows
TableviewNumberOfRows(s, section) ==
    IF s.is_comment_search_active
    THEN IF DOMAIN s.displayed_notes = {} THEN 0
         ELSE Len(s.displayed_notes[s.displayed_keys[section + 1]])
    ELSE LET current_id_input == Lower(Strip(s.id_input))
         IN  IF current_id_input # EmptyStr
             THEN IF current_id_input \in DOMAIN s.displayed_notes
                  THEN Len(s.displayed_notes[current_id_input])
                  ELSE Cardinality({key \in DOMAIN s.displayed_notes :
                                        StartsWith(Lower(key), current_id_input)})
             ELSE Cardinality(DOMAIN s.displayed_notes)

\* NotesApp.__init__ on a table holding rows, at clock t
Construct(rows, t) ==
    LET s0 == [db |-> rows, notes |-> EmptyDict, index |-> {}, id_index |-> {},
               displayed_notes |-> EmptyDict, displayed_keys |-> << >>,
               displayed_shared |-> {}, comments |-> << >>, comments_shared |-> << >>,
               id_input |-> EmptyStr, comment_input |-> EmptyStr,
               updating_comment_index |-> None, is_comment_search_active |-> FALSE,
               timeframe |-> 0, dynamic_action |-> "filter_notes",
               alerts |-> 0, now |-> t, exc |-> ""]
    IN  FilterNotes(LoadNotes(s0))

(***************************************************************************)
(* The user's events.                                                      *)
(***************************************************************************)
Sp == " "

\* clipboard_buffer.json absent
NoFile == <<"absent">>

\* ClipboardBuffer() where clipboard_buffer.json is absent: _load returns []
NoBufferFile == buffer = << >> /\ saved = NoFile

\* the app as NotesApp() leaves it on an empty table at day 0
Started ==
    \E s \in Construct(<< >>, 0) :
        /\ db = s.db /\ notes = s.notes /\ index = s.index /\ id_index = s.id_index
        /\ displayed_notes = s.displayed_notes /\ displayed_keys = s.displayed_keys
        /\ displayed_shared = s.displayed_shared /\ comments = s.comments
        /\ comments_shared = s.comments_shared /\ id_input = s.id_input
        /\ comment_input = s.comment_input
        /\ updating_comment_index = s.updating_comment_index
        /\ is_comment_search_active = s.is_comment_search_active
        /\ timeframe = s.timeframe /\ dynamic_action = s.dynamic_action
        /\ alerts = s.alerts /\ now = s.now
        /\ NoBufferFile

Init == ret = << >> /\ Started

\* the triples the content index holds
IndexedTriples(idx) == {p[2] : p \in idx}

\* the bounds of the model: a step that would exceed one is not taken
WithinBounds(t) ==
    /\ Len(t.db) <= MaxRows
    /\ t.alerts <= MaxAlerts
    /\ Cardinality(IndexedTriples(t.index)) <= MaxIndexed

\* the user edits the identifier field: id_input.action = input_change
TypeId(text) ==
    /\ text # id_input
    /\ \E t \in FilterNotes([Cur EXCEPT !.id_input = text]) : Install(t)

\* the user edits the comment field: textview_did_change
TypeComment(text) ==
    /\ text # comment_input
    /\ Install(InputChangeComment([Cur EXCEPT !.comment_input = text]))

\* the user presses the dynamic button (Search or Save)
PressDynamicButton ==
    \E t \in (IF dynamic_action = "save_note" THEN SaveNote(Cur) ELSE FilterNotes(Cur)) :
        WithinBounds(t) /\ Install(t)

\* the user presses Clear
PressClear == \E t \in ClearInput(Cur) : Install(t)

\* the user picks a segment of the timeframe control
SelectTimeframe(tf) ==
    /\ tf # timeframe
    /\ \E t \in FilterNotes([Cur EXCEPT !.timeframe = tf]) : Install(t)

\* the user taps a row the table shows
TapRow(section, row) ==
    /\ section < TableviewNumberOfSections(Cur)
    /\ row < TableviewNumberOfRows(Cur, section)
    /\ Install(TableviewDidSelect(Cur, section, row))

\* the user swipes a row the table shows to delete it
SwipeDelete(section, row) ==
    /\ section < TableviewNumberOfSections(Cur)
    /\ row < TableviewNumberOfRows(Cur, section)
    /\ \E t \in TableviewDelete(Cur, section, row) : WithinBounds(t) /\ Install(t)

\* the user answers an open confirmation with Update
PressUpdate ==
    /\ alerts > 0
    /\ \E t \in AlertAction(Cur, TRUE) : WithinBounds(t) /\ Install(t)

\* the user answers an open confirmation with Keep
PressKeep ==
    /\ alerts > 0
    /\ \E t \in AlertAction(Cur, FALSE) : WithinBounds(t) /\ Install(t)

\* the app is closed and started again on the same ants.db
Restart == \E t \in Construct(db, now) : WithinBounds(t) /\ Install(t)

\* time passes
Tick ==
    /\ now < MaxTime
    /\ Install([Cur EXCEPT !.now = now + 1])

(***************************************************************************)
(* Environments of the same program.  In the first the user adds comments, *)
(* searches with one or two words, narrows by identifier and timeframe,    *)
(* deletes, and restarts the app, but never taps a row.  In the second the *)
(* user also selects comments, edits them and answers the confirmations    *)
(* while time passes, under one identifier and two texts.                  *)
(***************************************************************************)
\* what the user may type into the identifier field
IdInputs == {EmptyStr, <<"a">>, <<"B">>}
\* what the user may type into the comment field
CommentInputs == {EmptyStr, <<"x">>, <<"y">>, <<"x", Sp, "y">>}
Timeframes == {0, 1}

Next ==
    \/ \E text \in IdInputs : TypeId(text)
    \/ \E text \in CommentInputs : TypeComment(text)
    \/ PressDynamicButton
    \/ PressClear
    \/ \E tf \in Timeframes : SelectTimeframe(tf)
    \/ \E section \in 0..(MaxRows - 1), row \in 0..(MaxRows - 1) : SwipeDelete(section, row)
    \/ Restart

Spec == Init /\ [][Next]_vars

\* what the user may type into the fields in the second environment (Clear
\* and a save empty them)
SessionIdInputs == {<<"a">>}
SessionCommentInputs == {<<"x">>, <<"y">>}

NextSession ==
    \/ \E text \in SessionIdInputs : TypeId(text)
    \/ \E text \in SessionCommentInputs : TypeComment(text)
    \/ PressDynamicButton
    \/ PressClear
    \/ \E section \in 0..(MaxRows - 1), row \in 0..(MaxRows - 1) : TapRow(section, row)
    \/ \E section \in 0..(MaxRows - 1), row \in 0..(MaxRows - 1) : SwipeDelete(section, row)
    \/ PressUpdate
    \/ PressKeep
    \/ Tick

SpecSession == Init /\ [][NextSession]_vars

\* a third environment: the second without deletions, where the user also
\* blanks the identifier field and empties the comment field by hand
EditIdInputs == {<<Sp>>, <<"a">>}
EditCommentInputs == {EmptyStr, <<"x">>, <<"y">>}

NextEdit ==
    \/ \E text \in EditIdInputs : TypeId(text)
    \/ \E text \in EditCommentInputs : TypeComment(text)
    \/ PressDynamicButton
    \/ PressClear
    \/ \E section \in 0..(MaxRows - 1), row \in 0..(MaxRows - 1) : TapRow(section, row)
    \/ PressUpdate
    \/ PressKeep
    \/ Tick

SpecEdit == Init /\ [][NextEdit]_vars

(***************************************************************************)
(* SearchIndex on its own: a fresh index, some add_entry calls, then one   *)
(* search.  ret records the triples added and the call.                    *)
(***************************************************************************)
MaxAdded == 3

SearchIds == {<<"a">>, <<"B">>}
SearchTexts == {<<"x">>, <<"y">>, <<"x", Sp, "y">>, <<"X">>}
SearchQueries == {<<"x">>, <<"y">>, <<"x", Sp, "y">>, <<"y", Sp, "x">>, <<"X">>}
SearchFilters == {NoFilter, EmptyStr, <<"a">>, <<"B">>}

InitSearch ==
    /\ ret = [added |-> {}, called |-> FALSE, query |-> EmptyStr,
              id_filter |-> NoFilter, results |-> {}]
    /\ Started

app_vars == <<db, notes, displayed_notes, displayed_keys, displayed_shared, comments,
              comments_shared, id_input, comment_input, updating_comment_index,
              is_comment_search_active, timeframe, dynamic_action, alerts, now>>

\* search_index.add_entry(identifier, timestamp, comment)
IndexAdd(identifier, timestamp, comment) ==
    /\ ~ret.called
    /\ Cardinality(ret.added) < MaxAdded
    /\ <<identifier, timestamp, comment>> \notin ret.added
    /\ LET si == AddEntry([index |-> index, id_index |-> id_index],
                          identifier, timestamp, comment)
       IN  index' = si.index /\ id_index' = si.id_index
    /\ ret' = [ret EXCEPT !.added = @ \cup {<<identifier, timestamp, comment>>}]
    /\ UNCHANGED <<app_vars, buffer, saved>>

\* search_index.search(query, id_filter)
IndexSearch(query, id_filter) ==
    /\ ~ret.called
    /\ \E out \in SearchWith(index, query, id_filter) :
        /\ index' = out.index
        /\ ret' = [ret EXCEPT !.called = TRUE, !.query = query,
                              !.id_filter = id_filter, !.results = out.results]
    /\ UNCHANGED <<id_index, app_vars, buffer, saved>>

NextSearch ==
    \/ \E identifier \in SearchIds, comment \in SearchTexts :
        IndexAdd(identifier, Strftime(0), comment)
    \/ \E query \in SearchQueries, id_filter \in SearchFilters :
        IndexSearch(query, id_filter)

SpecSearch == InitSearch /\ [][NextSearch]_vars

(***************************************************************************)
(* What the rest of the program can observe of the store and the index.    *)
(***************************************************************************)
\* the (identifier, timestamp, text) triples of the comments notes holds
StoreTriples ==
    {<<id, SplitOnce(c)[1], SplitOnce(c)[2]>> :
        <<id, c>> \in UNION {{<<i, e>> : e \in Range(notes[i])} : i \in DOMAIN notes}}

\* the (identifier, timestamp, text) rows the table holds
StorageTriples == Range(db)

\* the tokens the content index has a key for
IndexedTokens == {p[1] : p \in index}

\* what search_index.search(t) returns in the current state
SearchResults(t) == UNION {out.results : out \in SearchWith(index, t, NoFilter)}

\* what load_notes reads out of the table
StoredNotes == LoadRows(db, EmptyDict, [index |-> {}, id_index |-> {}]).notes

(***************************************************************************)
(* C1  Stated: after any sequence of adds, edits, deletions and searches,  *)
(* search(t) for a single token t returns only triples that are in the     *)
(* Note Store, so no posting of an edited-away or deleted comment          *)
(* survives.  The index is only ever added to, and the statement fails.    *)
(***************************************************************************)
C1_SearchReturnsOnlyStored ==
    \A t \in IndexedTokens : SearchResults(t) \subseteq StoreTriples

(***************************************************************************)
(* C2  Stated: in every reachable state, every triple the Note Store holds *)
(* is returned by search(t) for every lowercase word token t of its text,  *)
(* also after earlier searches.  A search of two words shrinks a posting   *)
(* set of the index in place, and the statement fails.                     *)
(***************************************************************************)
C2_StoredIsSearchable ==
    \A x \in StoreTriples : \A t \in WordTokens(x[3]) : x \in SearchResults(t)

(***************************************************************************)
(* C3  Stated: after every completed add, edit or deletion the table holds *)
(* exactly the contents of the Note Store, so a deleted comment is absent  *)
(* from the table.  The deletion of one comment never reaches the table,   *)
(* and the statement fails.                                                *)
(***************************************************************************)
C3_StorageHoldsStore == notes = StoredNotes

(***************************************************************************)
(* C4  For any set of triples added with add_entry and any query with at   *)
(* least one token, search returns exactly the added triples whose text    *)
(* has every token of the query, whatever the order of the tokens; with an *)
(* id_filter given, exactly those of them under that identifier.           *)
(***************************************************************************)
C4_SearchIsBooleanAnd ==
    (ret.called /\ WordTokens(ret.query) # {}) =>
        ret.results =
            {x \in ret.added :
                /\ WordTokens(ret.query) \subseteq WordTokens(x[3])
                /\ (Truthy(ret.id_filter) => x[1] = ret.id_filter)}

\* a search of two words under an identifier filter that found a triple and
\* left out one for its text and one for its identifier
C4_Witness ==
    /\ ret.called
    /\ Cardinality(WordTokens(ret.query)) = 2
    /\ Truthy(ret.id_filter)
    /\ ret.results # {}
    /\ \E x \in ret.added : x[1] = ret.id_filter /\ x \notin ret.results
    /\ \E x \in ret.added :
        x[1] # ret.id_filter /\ WordTokens(ret.query) \subseteq WordTokens(x[3])

(***************************************************************************)
(* The edit session as the confirmation reads it when it is answered.      *)
(***************************************************************************)
\* the identifier save_callback passes to perform_save
SavedIdentifier == Strip(id_input)

\* the text save_callback and save_note pass to perform_save
SavedText == Strip(comment_input)

\* updating_comment_index names a comment of that identifier
EditSessionNamesComment ==
    /\ updating_comment_index # None
    /\ SavedIdentifier \in DOMAIN notes
    /\ updating_comment_index < Len(notes[SavedIdentifier])

\* the comment being edited
EditedComment == notes[SavedIdentifier][updating_comment_index + 1]

\* the number of comments notes holds under an identifier
CommentCount(nts, identifier) ==
    IF identifier \in DOMAIN nts THEN Len(nts[identifier]) ELSE 0

(***************************************************************************)
(* C5  An edit answered with Keep (update_timestamp = False) replaces the  *)
(* text of the comment being edited and keeps the timestamp it had; an     *)
(* edit answered with Update stamps the comment with the current time.     *)
(***************************************************************************)
C5_KeepPreservesTimestamp ==
    [][/\ (EditSessionNamesComment /\ PressKeep) =>
            notes'[SavedIdentifier][updating_comment_index + 1] =
                Encode(SplitOnce(EditedComment)[1], SavedText)
       /\ (EditSessionNamesComment /\ PressUpdate) =>
            notes'[SavedIdentifier][updating_comment_index + 1] =
                Encode(Strftime(now), SavedText)]_vars

\* a confirmation is open on a comment stamped on an earlier day, the text
\* has been changed, and Keep writes it
C5_Witness ==
    /\ alerts > 0
    /\ EditSessionNamesComment
    /\ Strptime(SplitOnce(EditedComment)[1]) < now
    /\ SavedText # SplitOnce(EditedComment)[2]
    /\ \E t \in AlertAction(Cur, FALSE) :
        /\ WithinBounds(t)
        /\ t.alerts = 0
        /\ t.notes[SavedIdentifier][updating_comment_index + 1] # EditedComment

(***************************************************************************)
(* C6  A save while an edit session is active replaces the comment of the  *)
(* session: the identifier keeps its number of comments and the session    *)
(* returns to Idle.  A save while Idle appends: the identifier has one     *)
(* comment more and the session stays Idle.                                *)
(***************************************************************************)
C6_SaveWritesBySession ==
    [][/\ (EditSessionNamesComment /\ (PressKeep \/ PressUpdate)) =>
            /\ CommentCount(notes', SavedIdentifier) = CommentCount(notes, SavedIdentifier)
            /\ SplitOnce(notes'[SavedIdentifier][updating_comment_index + 1])[2] = SavedText
            /\ \A i \in 1..CommentCount(notes, SavedIdentifier) :
                i # updating_comment_index + 1 =>
                    notes'[SavedIdentifier][i] = notes[SavedIdentifier][i]
            /\ updating_comment_index' = None
       /\ (/\ updating_comment_index = None
           /\ \/ /\ dynamic_action = "save_note"
                 /\ SavedIdentifier # EmptyStr /\ SavedText # EmptyStr
                 /\ PressDynamicButton
              \/ PressUpdate) =>
            /\ CommentCount(notes', SavedIdentifier) =
                    CommentCount(notes, SavedIdentifier) + 1
            /\ updating_comment_index' = None]_vars

\* a confirmation is open on the first of two comments, and Update replaces
\* it and ends the session
C6_Witness ==
    /\ alerts > 0
    /\ EditSessionNamesComment
    /\ updating_comment_index = 0
    /\ CommentCount(notes, SavedIdentifier) = 2
    /\ \E t \in AlertAction(Cur, TRUE) :
        /\ WithinBounds(t)
        /\ t.alerts = 0
        /\ t.updating_comment_index = None
        /\ Len(t.notes[SavedIdentifier]) = 2
        /\ t.notes[SavedIdentifier][1] # EditedComment

(***************************************************************************)
(* C7  Stated: the edit session is Idle after every press of Clear and     *)
(* after every change of the identifier context: the identifier field      *)
(* edited or cleared, another identifier selected.  Only the clearing of   *)
(* the comment field resets updating_comment_index, and the statement      *)
(* fails.                                                                  *)
(***************************************************************************)
C7_ContextChangeForcesIdle ==
    [][(\/ \E text \in EditIdInputs : TypeId(text)
        \/ PressClear
        \/ /\ ~is_comment_search_active /\ comments = << >>
           /\ \E row \in 0..(MaxRows - 1) : TapRow(0, row))
       => updating_comment_index' = None]_vars

(***************************************************************************)
(* C8  In every reachable state no identifier of the Note Store maps to an *)
(* empty list of comments: deleting the last comment of an identifier      *)
(* removes the identifier, and the identifier list, when shown, lists only *)
(* identifiers of the Note Store.                                          *)
(***************************************************************************)
C8_NoEmptyCommentList ==
    /\ \A identifier \in DOMAIN notes : notes[identifier] # << >>
    /\ (~is_comment_search_active /\ comments = << >>) =>
            DOMAIN displayed_notes \subseteq DOMAIN notes

\* the last comment of the identifier in the field has just been deleted:
\* the list the table shows was emptied in place and the key is gone
C8_Witness ==
    /\ comments = << << >> >>
    /\ id_input \notin DOMAIN notes
    /\ \E r \in Range(db) : r[1] = id_input

(***************************************************************************)
(* C9  Stated: no sequence of user events stores a comment with empty      *)
(* text, in the Note Store or in the table.  The confirmation saves the    *)
(* fields as they are when it is answered, unvalidated, and the statement  *)
(* fails.                                                                  *)
(***************************************************************************)
C9_NoEmptyText ==
    \A x \in StoreTriples \cup StorageTriples : x[3] # EmptyStr

(***************************************************************************)
(* C10  Stated: a save whose identifier or comment is empty or only        *)
(* whitespace after trimming is rejected: it leaves the Note Store, the    *)
(* index, the table and the edit session unchanged.  save_note rejects     *)
(* it, the save of an answered confirmation does not, and the statement    *)
(* fails.                                                                  *)
(***************************************************************************)
C10_InvalidSaveRejected ==
    [][(/\ SavedIdentifier = EmptyStr \/ SavedText = EmptyStr
        /\ \/ dynamic_action = "save_note" /\ PressDynamicButton
           \/ PressUpdate
           \/ PressKeep)
       => UNCHANGED <<notes, index, id_index, db, updating_comment_index>>]_vars

(***************************************************************************)
(* A fourth environment: the app is started on a table that earlier        *)
(* sessions filled, a month after its first row, and the user only looks:  *)
(* types into the two fields, picks a timeframe, presses Clear.            *)
(***************************************************************************)
\* most rows of the table the app is started on
MaxViewRows == 4

\* the day the app is started
ViewNow == MonthDelta

\* the rows earlier sessions may have saved, in the order they were saved
ViewRows ==
    <<<<<<"A", "1">>, Strftime(0), <<"x">>>>,
      <<<<"B">>, Strftime(0), <<"x">>>>,
      <<<<"A", "1">>, Strftime(ViewNow - WeekDelta), <<"x">>>>,
      <<<<"B">>, Strftime(ViewNow - WeekDelta), <<"x">>>>,
      <<<<"A", "1">>, Strftime(ViewNow - DayDelta), <<"y">>>>,
      <<<<"B">>, Strftime(ViewNow - DayDelta), <<"y">>>>,
      <<<<"A", "1">>, Strftime(ViewNow), <<"x">>>>,
      <<<<"B">>, Strftime(ViewNow), <<"x">>>>>>

\* the rows of ViewRows at the places in S, in order
RECURSIVE RowsAt(_, _)
RowsAt(S, from) ==
    IF from > Len(ViewRows) THEN << >>
    ELSE (IF from \in S THEN <<ViewRows[from]>> ELSE << >>) \o RowsAt(S, from + 1)

ViewTables ==
    {RowsAt(S, 1) : S \in {T \in SUBSET (1..Len(ViewRows)) : Cardinality(T) <= MaxViewRows}}

InitView ==
    /\ ret = << >>
    /\ \E rows \in ViewTables : \E s \in Construct(rows, ViewNow) :
        /\ db = s.db /\ notes = s.notes /\ index = s.index /\ id_index = s.id_index
        /\ displayed_notes = s.displayed_notes /\ displayed_keys = s.displayed_keys
        /\ displayed_shared = s.displayed_shared /\ comments = s.comments
        /\ comments_shared = s.comments_shared /\ id_input = s.id_input
        /\ comment_input = s.comment_input
        /\ updating_comment_index = s.updating_comment_index
        /\ is_comment_search_active = s.is_comment_search_active
        /\ timeframe = s.timeframe /\ dynamic_action = s.dynamic_action
        /\ alerts = s.alerts /\ now = s.now
        /\ NoBufferFile

ViewIdInputs == {EmptyStr, <<"A">>, <<"A", "1">>, <<"b">>, <<"B">>}
ViewCommentInputs == {EmptyStr, <<"x">>}
ViewTimeframes == 0..3

NextView ==
    \/ \E text \in ViewIdInputs : TypeId(text)
    \/ \E text \in ViewCommentInputs : TypeComment(text)
    \/ \E tf \in ViewTimeframes : SelectTimeframe(tf)
    \/ PressClear

SpecView == InitView /\ [][NextView]_vars

(***************************************************************************)
(* What filter_notes is asked, and the views it computes from the current  *)
(* state.                                                                  *)
(***************************************************************************)
\* the identifier fragment and the text query filter_notes reads
IdFragment == Strip(id_input)
TextQuery == Strip(comment_input)

\* the comments of a list whose timestamp is inside the selected window
InWindow(cs) == {c \in Range(cs) : IsWithinTimeframe(SplitOnce(c)[1],
                                                     GetTimeframeDelta(timeframe), now)}

\* the (identifier, comment) pairs a view lists
ViewPairs(view) ==
    UNION {{<<i, c>> : c \in Range(view[i])} : i \in DOMAIN view}

\* the stored identifiers whose lowercase form starts with the lowercase
\* fragment
PrefixMatches(fragment) ==
    {i \in DOMAIN notes : StartsWith(Lower(i), Lower(fragment))}

(***************************************************************************)
(* C11  Stated: with an empty text query and a non-empty identifier        *)
(* fragment, the view filter_notes computes holds exactly the identifiers  *)
(* whose lowercase form starts with the lowercase fragment and that have a *)
(* comment inside the window, each with all of its comments inside the     *)
(* window.  filter_notes asks search_ids instead, which matches whole      *)
(* identifier words, and the statement fails.                              *)
(***************************************************************************)
C11_FragmentIsPrefixMatch ==
    (TextQuery = EmptyStr /\ IdFragment # EmptyStr) =>
        \A v \in FilterNotes(Cur) :
            /\ DOMAIN v.displayed_notes =
                    {i \in PrefixMatches(IdFragment) : InWindow(notes[i]) # {}}
            /\ \A i \in DOMAIN v.displayed_notes :
                    Range(v.displayed_notes[i]) = InWindow(notes[i])

(***************************************************************************)
(* C12  Stated: with a non-empty text query the identifier field narrows   *)
(* the full-text results to one identifier only when it is an existing     *)
(* identifier; a fragment that is no identifier applies no filter and the  *)
(* matching comments of all identifiers are shown.  filter_notes passes    *)
(* every non-empty identifier field as id_filter, and the statement fails. *)
(***************************************************************************)
C12_FragmentDoesNotFilterText ==
    TextQuery # EmptyStr =>
        \A v \in FilterNotes(Cur) :
            ViewPairs(v.displayed_notes) =
                {<<x[1], Encode(x[2], x[3])>> : x \in
                    {y \in StoreTriples :
                        /\ WordTokens(TextQuery) \subseteq WordTokens(y[3])
                        /\ Encode(y[2], y[3]) \in InWindow(notes[y[1]])
                        /\ (IdFragment \in DOMAIN notes => y[1] = IdFragment)}}

(***************************************************************************)
(* C13  Stated: when the identifier fragment equals an existing identifier *)
(* up to letter case and none of its comments is inside the window, the    *)
(* view keeps that identifier with an empty list, and every other          *)
(* identifier whose list is empty is dropped.  filter_notes drops every    *)
(* identifier whose list is empty, and the statement fails.                *)
(***************************************************************************)
C13_ExactIdentifierIsRetained ==
    \A v \in FilterNotes(Cur) :
        /\ \A i \in DOMAIN notes :
            (IdFragment # EmptyStr /\ Lower(i) = Lower(IdFragment) /\ InWindow(notes[i]) = {})
                => (i \in DOMAIN v.displayed_notes /\ v.displayed_notes[i] = << >>)
        /\ \A i \in DOMAIN v.displayed_notes :
            v.displayed_notes[i] = << >> =>
                (IdFragment # EmptyStr /\ Lower(i) = Lower(IdFragment))

\* the timestamps of a list of comments never rise from one to the next
NewestFirst(cs) ==
    \A k \in 1..(Len(cs) - 1) :
        Strptime(SplitOnce(cs[k])[1]) >= Strptime(SplitOnce(cs[k + 1])[1])

(***************************************************************************)
(* C14  Stated: in every view filter_notes computes (full-text, identifier *)
(* and show-all mode) the comments under each identifier are ordered by    *)
(* timestamp descending, whatever order they were stored in.  filter_notes *)
(* never sorts: it lists the comments in stored order, or in the order the *)
(* result set iterates, and the statement fails.                           *)
(***************************************************************************)
C14_ViewIsNewestFirst ==
    \A v \in FilterNotes(Cur) :
        \A i \in DOMAIN v.displayed_notes : NewestFirst(v.displayed_notes[i])

\* the sets of (identifier, comment) pairs filter_notes may show for the
\* current store, fields and clock with segment tf selected
PairsShown(tf) ==
    {ViewPairs(v.displayed_notes) : v \in FilterNotes([Cur EXCEPT !.timeframe = tf])}

\* the next wider window: Day, Week, Month are segments 1, 2, 3 and All is 0
Wider(tf) == IF tf = 3 THEN 0 ELSE tf + 1

(***************************************************************************)
(* C15  For the same Note Store, identifier fragment, text query and       *)
(* instant, the (identifier, comment) pairs shown for window Day are among *)
(* those shown for Week, those among the ones for Month, and those among   *)
(* the ones for All.                                                       *)
(***************************************************************************)
C15_WindowsAreNested ==
    \A tf \in 1..3 :
        \A narrow \in PairsShown(tf) : \A wide \in PairsShown(Wider(tf)) :
            narrow \subseteq wide

\* window Day has just been selected and shows a comment, and each wider
\* window would show strictly more
C15_Witness ==
    /\ timeframe = 1
    /\ ViewPairs(displayed_notes) # {}
    /\ ViewPairs(displayed_notes) \in PairsShown(1)
    /\ \A tf \in 1..3 :
        \A narrow \in PairsShown(tf) : \A wide \in PairsShown(Wider(tf)) :
            narrow # wide

(***************************************************************************)
(* SearchIndex on its own, the identifier side: a fresh index, some        *)
(* add_entry calls with identifiers of one word, of two words and with     *)
(* punctuation, then one search_ids.                                       *)
(***************************************************************************)
NamedIds == {<<"a">>, <<"a", Sp, "B">>, <<"a", "-", "1">>}
NameQueries == {<<"a">>, <<"b">>, <<"B", Sp, "a">>, <<"a", "-", "1">>, <<"1">>}

\* search_index.search_ids(query)
IndexSearchIds(query) ==
    /\ ~ret.called
    /\ \E out \in SearchIdsWith(id_index, query) :
        /\ id_index' = out.id_index
        /\ ret' = [ret EXCEPT !.called = TRUE, !.query = query, !.results = out.results]
    /\ UNCHANGED <<index, app_vars, buffer, saved>>

NextSearchIds ==
    \/ \E identifier \in NamedIds, comment \in SearchTexts :
        IndexAdd(identifier, Strftime(0), comment)
    \/ \E query \in NameQueries : IndexSearchIds(query)

SpecSearchIds == InitSearch /\ [][NextSearchIds]_vars

(***************************************************************************)
(* C16  Stated: search_ids(query) returns exactly the stored identifiers   *)
(* whose name tokens include every token of the query, for every           *)
(* identifier add_entry can index, also of several words or with           *)
(* punctuation: the query is cut into tokens as the identifier was.        *)
(* add_entry cuts the identifier at whitespace, search_ids cuts the query  *)
(* into \w+ runs, and the statement fails.                                 *)
(***************************************************************************)
C16_SearchIdsMatchesNameTokens ==
    (ret.called /\ SplitTokens(ret.query) # {}) =>
        ret.results =
            {i \in {x[1] : x \in ret.added} : SplitTokens(ret.query) \subseteq SplitTokens(i)}

\* a fresh SearchIndex filled from what the table returns
FreshIndex == LoadRows(db, EmptyDict, [index |-> {}, id_index |-> {}]).si

(***************************************************************************)
(* C17  Stated: after any sequence of operations, an index rebuilt from    *)
(* scratch out of what storage returns answers every search and every      *)
(* search_ids as the running index does.  The running index keeps what the *)
(* table no longer holds, and the statement fails.                         *)
(***************************************************************************)
C17_RebuiltIndexAnswersAlike ==
    /\ \A t \in {p[1] : p \in index \cup FreshIndex.index} :
        {out.results : out \in SearchWith(index, t, NoFilter)} =
            {out.results : out \in SearchWith(FreshIndex.index, t, NoFilter)}
    /\ \A t \in {p[1] : p \in id_index \cup FreshIndex.id_index} :
        {out.results : out \in SearchIdsWith(id_index, t)} =
            {out.results : out \in SearchIdsWith(FreshIndex.id_index, t)}

\* the identifier the identifier branch of tableview_delete deletes for a row
SwipedIdentifier(row) == SortedStrs(DOMAIN displayed_notes)[row + 1]

(***************************************************************************)
(* C18  Stated: deleting an identifier removes it and all of its comments  *)
(* from the Note Store and from the table in one step and leaves every     *)
(* other identifier and its comments unchanged.  The reload that ends the  *)
(* step brings back comments of other identifiers whose deletion never     *)
(* reached the table, and the statement fails.                             *)
(***************************************************************************)
C18_DeleteIdentifierFrame ==
    [][\A row \in 0..(MaxRows - 1) :
        (/\ comments = << >>
         /\ row < Cardinality(DOMAIN displayed_notes)
         /\ SwipedIdentifier(row) \in DOMAIN notes
         /\ SwipeDelete(0, row))
        => /\ DOMAIN notes' = DOMAIN notes \ {SwipedIdentifier(row)}
           /\ \A i \in DOMAIN notes' : notes'[i] = notes[i]
           /\ db' = RowsNotOf(db, SwipedIdentifier(row))]_vars

\* the labels tableview_cell_for_row gives the rows of the identifier view
IdentifierRows(s) ==
    LET keys == SortedStrs(DOMAIN s.displayed_notes)
        n    == TableviewNumberOfRows(s, 0)
    IN  SubSeq(keys, 1, IF n < Len(keys) THEN n ELSE Len(keys))

\* the identifier view is the one on screen: no full-text search, and the
\* identifier field names no displayed identifier
IdentifierViewShown(s) ==
    /\ ~s.is_comment_search_active
    /\ Strip(s.id_input) \notin DOMAIN s.displayed_notes

(***************************************************************************)
(* C19  Stated: the rows of the identifier view are in ascending           *)
(* lexicographic order of the identifiers compared without regard to       *)
(* letter case.  The rows follow sorted(), which compares code points, so  *)
(* every upper-case letter comes before every lower-case one, and the      *)
(* statement fails.                                                        *)
(***************************************************************************)
C19_IdentifierRowsIgnoreCase ==
    IdentifierViewShown(Cur) =>
        \A i, j \in DOMAIN IdentifierRows(Cur) :
            i < j => ~StrLess(Lower(IdentifierRows(Cur)[j]),
                              Lower(IdentifierRows(Cur)[i]))

\* the edit session names no comment: its identifier is not in notes, or its
\* index is past the identifier's list
EditSessionLost ==
    /\ updating_comment_index # None
    /\ ~EditSessionNamesComment

(***************************************************************************)
(* C20  An edit whose identifier is not in the Note Store, or whose comment *)
(* index is out of range, fails with a lookup error (KeyError for the      *)
(* identifier, IndexError for the index) and leaves the Note Store, the    *)
(* index and the table unchanged, with or without a new timestamp.         *)
(***************************************************************************)
C20_LostEditFailsAndChangesNothing ==
    EditSessionLost =>
        \A update_timestamp \in BOOLEAN :
            \A t \in PerformSave(Cur, SavedIdentifier, SavedText, update_timestamp) :
                /\ t.exc = (IF SavedIdentifier \notin DOMAIN notes
                            THEN "KeyError" ELSE "IndexError")
                /\ t.notes = notes
                /\ t.index = index
                /\ t.id_index = id_index
                /\ t.db = db

\* the confirmation is open on a lost edit session and the table holds
\* comments the failed edit could have changed
C20_Witness ==
    /\ EditSessionLost
    /\ alerts > 0
    /\ db # << >>
    /\ SavedText # EmptyStr
    /\ \E t \in AlertAction(Cur, TRUE) : t.exc = "IndexError"

(***************************************************************************)
(* A sixth environment: the app is started on a table other sessions or    *)
(* other programs have written, where a timestamp may not be in the format *)
(* of DATESTR.  The user types into the two fields and presses Clear; the  *)
(* timeframe stays All, so no timestamp is parsed after loading.           *)
(***************************************************************************)
\* most rows of the table the app is started on
MaxLoadRows == 3

\* a timestamp column that is not in the format of DATESTR: a date without
\* a time
MalformedStamp == <<"0", "0">>

\* the rows the table may hold, in rowid order
LoadPool ==
    <<<<<<"A">>, Strftime(0), <<"x">>>>,
      <<<<"A">>, MalformedStamp, <<"y">>>>,
      <<<<"B">>, MalformedStamp, <<"x">>>>,
      <<<<"B">>, Strftime(0), <<"y">>>>>>

\* the rows of LoadPool at the places in S, in order
RECURSIVE PoolAt(_, _)
PoolAt(S, from) ==
    IF from > Len(LoadPool) THEN << >>
    ELSE (IF from \in S THEN <<LoadPool[from]>> ELSE << >>) \o PoolAt(S, from + 1)

InitLoad ==
    /\ ret = << >>
    /\ \E S \in {T \in SUBSET (1..Len(LoadPool)) : Cardinality(T) <= MaxLoadRows} :
       \E s \in Construct(PoolAt(S, 1), 0) :
        /\ db = s.db /\ notes = s.notes /\ index = s.index /\ id_index = s.id_index
        /\ displayed_notes = s.displayed_notes /\ displayed_keys = s.displayed_keys
        /\ displayed_shared = s.displayed_shared /\ comments = s.comments
        /\ comments_shared = s.comments_shared /\ id_input = s.id_input
        /\ comment_input = s.comment_input
        /\ updating_comment_index = s.updating_comment_index
        /\ is_comment_search_active = s.is_comment_search_active
        /\ timeframe = s.timeframe /\ dynamic_action = s.dynamic_action
        /\ alerts = s.alerts /\ now = s.now
        /\ NoBufferFile

NextLoad ==
    \/ \E text \in {EmptyStr, <<"A">>, <<"B">>} : TypeId(text)
    \/ \E text \in {EmptyStr, <<"x">>, <<"y">>} : TypeComment(text)
    \/ PressClear

SpecLoad == InitLoad /\ [][NextLoad]_vars

(***************************************************************************)
(* C21  Stated: loading skips every record of the table whose timestamp is *)
(* not in the timestamp format and loads all the others, so the Note Store *)
(* holds exactly the well-formed records and never a malformed one.        *)
(* load_notes reads the timestamp column as text and stores every record,  *)
(* and the statement fails.                                                *)
(***************************************************************************)
C21_LoadSkipsMalformedRecords ==
    notes = LoadRows(SelectSeq(db, LAMBDA r : IsTimestamp(r[2])),
                     EmptyDict, [index |-> {}, id_index |-> {}]).notes

(***************************************************************************)
(* SearchIndex on its own, any number of calls: add_entry, search and      *)
(* search_ids in any order on one index, with queries that hold no token   *)
(* and queries that hold a token the index lacks.  ret records the triples *)
(* added and the last call.                                                *)
(***************************************************************************)
QueryStrings == {EmptyStr, <<"-">>, <<"x">>, <<"x", Sp, "y">>, <<"a">>, <<"a", Sp, "b">>}
QueryFilters == {NoFilter, <<"a">>}

InitQueries ==
    /\ ret = [added |-> {}, called |-> "", query |-> EmptyStr,
              id_filter |-> NoFilter, results |-> {}]
    /\ Started

\* search_index.add_entry(identifier, timestamp, comment)
QueryAdd(identifier, timestamp, comment) ==
    /\ Cardinality(ret.added) < MaxAdded
    /\ <<identifier, timestamp, comment>> \notin ret.added
    /\ LET si == AddEntry([index |-> index, id_index |-> id_index],
                          identifier, timestamp, comment)
       IN  index' = si.index /\ id_index' = si.id_index
    /\ ret' = [ret EXCEPT !.added = @ \cup {<<identifier, timestamp, comment>>}]
    /\ UNCHANGED <<app_vars, buffer, saved>>

\* search_index.search(query, id_filter)
QuerySearch(query, id_filter) ==
    /\ \E out \in SearchWith(index, query, id_filter) :
        /\ index' = out.index
        /\ ret' = [ret EXCEPT !.called = "search", !.query = query,
                              !.id_filter = id_filter, !.results = out.results]
    /\ UNCHANGED <<id_index, app_vars, buffer, saved>>

\* search_index.search_ids(query)
QuerySearchIds(query) ==
    /\ \E out \in SearchIdsWith(id_index, query) :
        /\ id_index' = out.id_index
        /\ ret' = [ret EXCEPT !.called = "search_ids", !.query = query,
                              !.id_filter = NoFilter, !.results = out.results]
    /\ UNCHANGED <<index, app_vars, buffer, saved>>

NextQueries ==
    \/ \E identifier \in {<<"a">>, <<"a", Sp, "B">>},
          comment \in {<<"x">>, <<"y">>, <<"x", Sp, "y">>} :
        QueryAdd(identifier, Strftime(0), comment)
    \/ \E query \in QueryStrings, id_filter \in QueryFilters : QuerySearch(query, id_filter)
    \/ \E query \in QueryStrings : QuerySearchIds(query)

SpecQueries == InitQueries /\ [][NextQueries]_vars

\* the query holds no token, or a token under which idx holds nothing
MissesToken(idx, query) ==
    \/ WordTokens(query) = {}
    \/ \E w \in WordTokens(query) : Postings(idx, w) = {}

(***************************************************************************)
(* C22  In every state of the index, search and search_ids return the      *)
(* empty set for a query that yields no token and for a query that holds a *)
(* token absent from the index they read, with every id_filter; each call  *)
(* has an outcome, a result set, and no other.                             *)
(***************************************************************************)
C22_MissingTokenGivesEmptySet ==
    \A query \in QueryStrings :
        /\ SearchIdsWith(id_index, query) # {}
        /\ MissesToken(id_index, query) =>
               \A out \in SearchIdsWith(id_index, query) : out.results = {}
        /\ \A id_filter \in QueryFilters :
               /\ SearchWith(index, query, id_filter) # {}
               /\ MissesToken(index, query) =>
                      \A out \in SearchWith(index, query, id_filter) : out.results = {}

\* search_ids('a b') has just answered set() on an index that holds 'a' but
\* not 'b', after a search that found something
C22_Witness ==
    /\ ret.called = "search_ids"
    /\ ret.query = <<"a", Sp, "b">>
    /\ ret.results = {}
    /\ Postings(id_index, <<"b">>) = {}
    /\ \E x \in ret.added : x[1] = <<"a">>
    /\ \E out \in SearchWith(index, <<"x", Sp, "y">>, NoFilter) :
          out.results = {} /\ Postings(index, <<"x">>) # {}

(***************************************************************************)
(* advanced_clipboard.py: ClipboardBuffer and import_clipboard.  The       *)
(* buffer object is the pair of its list and the file save() writes.       *)
(***************************************************************************)
BUFFER_MAX_SIZE == 10
MAX_SIZE == BUFFER_MAX_SIZE

\* ClipboardBuffer.save: json.dump of the list (the write succeeds)
BufferSave(b) == [b EXCEPT !.saved = b.buffer]

\* a ClipboardBuffer.add that does not look at the size of the buffer
BufferAddUnbounded(b, text) ==
    IF text = EmptyStr \/ text \in Range(b.buffer)
    THEN [buffer |-> b.buffer, saved |-> b.saved, returned |-> FALSE]
    ELSE [buffer |-> Append(b.buffer, text), saved |-> Append(b.buffer, text),
          returned |-> TRUE]

\* a ClipboardBuffer.add that puts the new item first
BufferAddFirst(b, text) ==
    IF text = EmptyStr \/ text \in Range(b.buffer) \/ Len(b.buffer) >= MAX_SIZE
    THEN [buffer |-> b.buffer, saved |-> b.saved, returned |-> FALSE]
    ELSE [buffer |-> <<text>> \o b.buffer, saved |-> <<text>> \o b.buffer,
          returned |-> TRUE]

\* ClipboardBuffer.add
BufferAdd(b, text) ==
    IF text = EmptyStr \/ text \in Range(b.buffer) \/ Len(b.buffer) >= MAX_SIZE
    THEN [buffer |-> b.buffer, saved |-> b.saved, returned |-> FALSE]
    ELSE LET b1 == BufferSave([b EXCEPT !.buffer = Append(b.buffer, text)])
         IN  [buffer |-> b1.buffer, saved |-> b1.saved, returned |-> TRUE]

\* ClipboardBuffer.remove; item_index is its parameter index
BufferRemove(b, item_index) ==
    IF 0 <= item_index /\ item_index < Len(b.buffer)
    THEN LET b1 == BufferSave([b EXCEPT !.buffer = ListDel(b.buffer, item_index)])
         IN  [buffer |-> b1.buffer, saved |-> b1.saved, returned |-> TRUE]
    ELSE [buffer |-> b.buffer, saved |-> b.saved, returned |-> FALSE]

\* ClipboardBuffer.clear
BufferClear(b) == BufferSave([b EXCEPT !.buffer = << >>])

\* ClipboardBuffer.is_full
IsFull(b) == Len(b.buffer) >= MAX_SIZE

\* import_clipboard on the clipboard text raw: the buffer it leaves and the
\* alert it shows
ImportOutcome(b, raw) ==
    LET text == Strip(raw)
    IN  IF text = EmptyStr
        THEN [buffer |-> b.buffer, saved |-> b.saved,
              alert |-> "Clipboard empty or only whitespace"]
        ELSE IF text \in Range(b.buffer)
        THEN [buffer |-> b.buffer, saved |-> b.saved,
              alert |-> "Item already exists in buffer"]
        ELSE IF IsFull(b)
        THEN [buffer |-> b.buffer, saved |-> b.saved, alert |-> "Buffer full"]
        ELSE LET r == BufferAdd(b, text)
             IN  [buffer |-> r.buffer, saved |-> r.saved,
                  alert |-> IF r.returned THEN "Added clipboard content to buffer"
                            ELSE "Failed to add clipboard content"]

(***************************************************************************)
(* The clipboard program on its own, started without a buffer file.  The   *)
(* texts offered to add are the empty string, the first and the last item  *)
(* of the buffer, and one text never offered before; ret records the last  *)
(* call, the number of texts offered so far and the number of removals.    *)
(***************************************************************************)
\* most distinct texts offered, and most items removed one by one
MaxTexts == 12
MaxRemoves == 2

\* the k-th text
TextNo(k) == <<"a", Digits[(k \div 10) + 1], Digits[(k % 10) + 1]>>

ThisBuffer == [buffer |-> buffer, saved |-> saved]

\* the texts that may be offered now
Offered ==
    {EmptyStr}
    \cup (IF buffer = << >> THEN {} ELSE {buffer[1], buffer[Len(buffer)]})
    \cup (IF ret.fresh < MaxTexts THEN {TextNo(ret.fresh)} ELSE {})

InitClipboard ==
    /\ Started
    /\ ret = [op |-> "", arg |-> EmptyStr, returned |-> FALSE, alert |-> "",
              fresh |-> 0, removes |-> 0, cleared |-> FALSE]

\* clipboard_buffer.add(text)
CallAdd(text) ==
    /\ LET r == BufferAdd(ThisBuffer, text)
       IN  /\ buffer' = r.buffer
           /\ saved' = r.saved
           /\ ret' = [ret EXCEPT !.op = "add", !.arg = text, !.returned = r.returned,
                                 !.alert = "", !.fresh = IF text = TextNo(ret.fresh) THEN @ + 1 ELSE @]
    /\ UNCHANGED <<index, id_index, app_vars>>

\* clipboard_buffer.remove(index)
CallRemove(item_index) ==
    /\ LET r == BufferRemove(ThisBuffer, item_index)
       IN  /\ r.returned => ret.removes < MaxRemoves
           /\ buffer' = r.buffer
           /\ saved' = r.saved
           /\ ret' = [ret EXCEPT !.op = "remove", !.arg = item_index, !.returned = r.returned,
                                 !.alert = "",
                                 !.removes = IF r.returned THEN @ + 1 ELSE @]
    /\ UNCHANGED <<index, id_index, app_vars>>

\* clipboard_buffer.clear()
CallClear ==
    /\ LET b == BufferClear(ThisBuffer)
       IN  /\ buffer' = b.buffer
           /\ saved' = b.saved
           /\ ret' = [ret EXCEPT !.op = "clear", !.arg = EmptyStr, !.returned = FALSE,
                                 !.alert = "", !.cleared = TRUE]
    /\ UNCHANGED <<index, id_index, app_vars>>

\* import_clipboard() while the clipboard holds raw
ImportClipboard(raw) ==
    /\ LET r == ImportOutcome(ThisBuffer, raw)
       IN  /\ buffer' = r.buffer
           /\ saved' = r.saved
           /\ ret' = [ret EXCEPT !.op = "import_clipboard", !.arg = raw,
                                 !.returned = FALSE, !.alert = r.alert,
                                 !.fresh = IF Strip(raw) = TextNo(ret.fresh) THEN @ + 1 ELSE @]
    /\ UNCHANGED <<index, id_index, app_vars>>

NextClipboard ==
    \/ \E text \in Offered : CallAdd(text)
    \/ \E item_index \in (-1)..MAX_SIZE : CallRemove(item_index)
    \/ CallClear
    \/ \E text \in Offered \cup {<<Sp>>} : ImportClipboard(text)
    \/ \E text \in Offered \ {EmptyStr} : ImportClipboard(<<Sp>> \o text \o <<Sp>>)

SpecClipboard == InitClipboard /\ [][NextClipboard]_vars

(***************************************************************************)
(* C23  Started without a buffer file, after any sequence of add, remove,  *)
(* clear and import_clipboard calls the buffer holds at most MAX_SIZE      *)
(* items, no item twice and no empty string.                               *)
(***************************************************************************)
C23_BufferBoundedDistinctNonEmpty ==
    /\ Len(buffer) <= MAX_SIZE
    /\ \A i, j \in DOMAIN buffer : buffer[i] = buffer[j] => i = j
    /\ \A i \in DOMAIN buffer : buffer[i] # EmptyStr

\* the buffer was cleared, lost items one by one, filled up again, and has
\* just refused a text it did not hold
C23_Witness ==
    /\ ret.cleared
    /\ ret.removes > 0
    /\ Len(buffer) = MAX_SIZE
    /\ ret.op = "add"
    /\ ~ret.returned
    /\ ret.arg \notin Range(buffer) \cup {EmptyStr}

(***************************************************************************)
(* C24  add(text) returns False and leaves the buffer unchanged when text  *)
(* is empty, is already in the buffer, or the buffer is full; otherwise it *)
(* appends text as the last item, keeps the earlier items in their order,  *)
(* and returns True.                                                       *)
(***************************************************************************)
C24_AddRefusesOrAppends ==
    [][\A text \in Offered :
        CallAdd(text) =>
            IF text = EmptyStr \/ text \in Range(buffer) \/ Len(buffer) >= MAX_SIZE
            THEN ~ret'.returned /\ buffer' = buffer
            ELSE /\ ret'.returned
                 /\ Len(buffer') = Len(buffer) + 1
                 /\ buffer'[Len(buffer')] = text
                 /\ SubSeq(buffer', 1, Len(buffer)) = buffer]_vars

\* ten texts were appended in the order they were offered, and add has just
\* refused an eleventh because the buffer is full
C24_Witness ==
    /\ ret.op = "add"
    /\ ~ret.returned
    /\ ret.arg = TextNo(MAX_SIZE)
    /\ buffer = [i \in 1..MAX_SIZE |-> TextNo(i - 1)]

(***************************************************************************)
(* C25  Stated: search and search_ids are read-only, the content index and *)
(* the name index are the same before and after every call.  Both          *)
(* functions intersect in place the set object the index stores under the  *)
(* first word, and the statement fails.                                    *)
(***************************************************************************)
C25_SearchesAreReadOnly ==
    [][(\/ \E query \in QueryStrings, id_filter \in QueryFilters :
              QuerySearch(query, id_filter)
        \/ \E query \in QueryStrings : QuerySearchIds(query))
       => index' = index /\ id_index' = id_index]_vars

(***************************************************************************)
(* A seventh environment: two identifiers, edit sessions and               *)
(* confirmations, no deletions.  ret remembers the entry the user tapped   *)
(* last to edit it: <<identifier, comment>>, << >> before the first tap.   *)
(***************************************************************************)
\* the entry tableview_did_select reads at (section, row) when the row is a
\* comment: selected_comment and the identifier it is looked up under
SelectedEntry(s, section, row) ==
    IF s.is_comment_search_active
    THEN <<s.displayed_keys[section + 1],
           s.displayed_notes[s.displayed_keys[section + 1]][row + 1]>>
    ELSE <<s.id_input, s.comments[1][row + 1]>>

\* the user taps a row the table shows; a tap that opens an edit session is
\* remembered
TapRowSelect(section, row) ==
    /\ section < TableviewNumberOfSections(Cur)
    /\ row < TableviewNumberOfRows(Cur, section)
    /\ LET t == TableviewDidSelect(Cur, section, row)
       IN  /\ InstallNotes(t)
           /\ ret' = IF t.exc = "" /\ (is_comment_search_active \/ comments # << >>)
                     THEN SelectedEntry(Cur, section, row)
                     ELSE ret

NextSelect ==
    \/ \E text \in {EmptyStr, <<"a">>, <<"B">>} : TypeId(text)
    \/ \E text \in {EmptyStr, <<"x">>, <<"y">>} : TypeComment(text)
    \/ PressDynamicButton
    \/ PressClear
    \/ \E section \in 0..(MaxRows - 1), row \in 0..(MaxRows - 1) : TapRowSelect(section, row)
    \/ PressUpdate
    \/ PressKeep

SpecSelect == Init /\ [][NextSelect]_vars

(***************************************************************************)
(* C26  Stated: a save made while editing overwrites the comment the user  *)
(* selected, also when the identifier field was changed or comments were   *)
(* deleted after the selection, and changes no other comment of any        *)
(* identifier.  The edit session keeps only an index, which the save       *)
(* applies to whatever identifier the field names by then, and the         *)
(* statement fails.                                                        *)
(***************************************************************************)
C26_SaveOverwritesTheSelected ==
    [][(EditSessionNamesComment /\ (PressUpdate \/ PressKeep))
       => /\ <<SavedIdentifier, EditedComment>> = ret
          /\ DOMAIN notes' = DOMAIN notes
          /\ \A i \in DOMAIN notes :
                /\ Len(notes'[i]) = Len(notes[i])
                /\ \A k \in DOMAIN notes[i] :
                      <<i, k>> # <<SavedIdentifier, updating_comment_index + 1>>
                          => notes'[i][k] = notes[i][k]]_vars

\* what tableview_cell_for_row renders at (section, row): a comment of an
\* identifier, an identifier, or nothing (IndexError, KeyError)
CellForRow(s, section, row) ==
    IF s.is_comment_search_active
    THEN IF section < Len(s.displayed_keys)
            /\ row < Len(s.displayed_notes[s.displayed_keys[section + 1]])
         THEN <<"comment", s.displayed_keys[section + 1],
                s.displayed_notes[s.displayed_keys[section + 1]][row + 1]>>
         ELSE <<"none">>
    ELSE IF Strip(s.id_input) \in DOMAIN s.displayed_notes
    THEN IF row < Len(s.displayed_notes[Strip(s.id_input)])
         THEN <<"comment", Strip(s.id_input), s.displayed_notes[Strip(s.id_input)][row + 1]>>
         ELSE <<"none">>
    ELSE IF row < Cardinality(DOMAIN s.displayed_notes)
         THEN <<"identifier", SortedStrs(DOMAIN s.displayed_notes)[row + 1]>>
         ELSE <<"none">>

\* notes without the comment c of identifier i, the identifier going with
\* its last comment
WithoutComment(nts, i, c) ==
    IF Len(nts[i]) = 1 THEN DictDel(nts, i)
    ELSE [nts EXCEPT ![i] = ListDel(@, ListIndex(@, c))]

(***************************************************************************)
(* C27  Stated: in every view mode a delete gesture at (section, row)      *)
(* removes from the Note Store the entry the table renders at that place:  *)
(* only that comment for a comment row, only that identifier for an        *)
(* identifier row.  tableview_delete chooses its branch by the comments    *)
(* attribute and ignores the section, tableview_cell_for_row by the search *)
(* mode and the identifier field, and the statement fails.                 *)
(***************************************************************************)
C27_DeleteRemovesTheRenderedEntry ==
    [][\A section \in 0..(MaxRows - 1), row \in 0..(MaxRows - 1) :
        LET cell == CellForRow(Cur, section, row)
        IN  (SwipeDelete(section, row) /\ cell # <<"none">>)
            => IF cell[1] = "identifier"
               THEN notes' = DictDel(notes, cell[2])
               ELSE /\ cell[2] \in DOMAIN notes
                    /\ cell[3] \in Range(notes[cell[2]])
                    /\ notes' = WithoutComment(notes, cell[2], cell[3])]_vars

(***************************************************************************)
(* C28  Stated: in every reachable state every identifier search_ids       *)
(* returns is a key of the Note Store, so filter_notes can read            *)
(* self.notes[id] for each, also after identifiers were deleted or lost    *)
(* their last comment.  Nothing removes an identifier from id_index, and   *)
(* the statement fails.                                                    *)
(***************************************************************************)
C28_SearchIdsReturnsStoredKeys ==
    \A query \in IdInputs :
        \A out \in SearchIdsWith(id_index, query) : out.results \subseteq DOMAIN notes

(***************************************************************************)
(* C29  Stated: the confirmation acts on the edit session it was opened    *)
(* for: whatever happens between Save and the answer, Keep never runs      *)
(* perform_save(..., False) while updating_comment_index is None.  The     *)
(* confirmation is a subview beside the other controls, which stay in use  *)
(* and end the session under it, and the statement fails.                  *)
(***************************************************************************)
C29_KeepFindsItsEditSession ==
    alerts > 0 =>
        \A t \in PerformSave(Cur, SavedIdentifier, SavedText, FALSE) :
            updating_comment_index # None /\ t.exc # "TypeError"

(***************************************************************************)
(* C30  Stated: when no text search is active and the identifier field     *)
(* names an identifier of the displayed view, tableview_number_of_rows is  *)
(* the number of comments displayed for it, for identifiers of any letter  *)
(* case, as tableview_cell_for_row renders them.  The row count looks the  *)
(* identifier up in lower case, and the statement fails.                   *)
(***************************************************************************)
C30_RowCountIsCommentCount ==
    (~is_comment_search_active /\ Strip(id_input) \in DOMAIN displayed_notes)
        => TableviewNumberOfRows(Cur, 0) = Len(displayed_notes[Strip(id_input)])

(***************************************************************************)
(* C31  The index add_entry produces depends only on the set of triples    *)
(* added: before any search, the content index and the name index are what *)
(* a fresh index holds after the same triples were added in any order,     *)
(* each of them twice.                                                     *)
(***************************************************************************)
C31_IndexDependsOnTripleSet ==
    ~ret.called =>
        \A o \in Perms(ret.added) :
            LET si == LoadRows(o \o o, EmptyDict, [index |-> {}, id_index |-> {}]).si
            IN  si.index = index /\ si.id_index = id_index

\* three triples were added, two of them under one word and two of them
\* under one identifier
C31_Witness ==
    /\ ~ret.called
    /\ Cardinality(ret.added) = MaxAdded
    /\ \E w \in {q[1] : q \in index} : Cardinality(Postings(index, w)) > 1
    /\ \E x, y \in ret.added : x # y /\ x[1] = y[1]
    /\ Cardinality({q[2] : q \in id_index}) > 1

(***************************************************************************)
(* An eighth environment: one identifier, comments whose text begins with  *)
(* a colon or holds ": ", saved on different days, and restarts of the app *)
(* on the table it wrote.                                                  *)
(***************************************************************************)
NextColon ==
    \/ \E text \in {EmptyStr, <<"a">>} : TypeId(text)
    \/ \E text \in {EmptyStr, <<"x">>, <<":">>, <<":", "x">>, <<":", Sp, "x">>,
                    <<"x", ":", Sp, "y">>} : TypeComment(text)
    \/ PressDynamicButton
    \/ PressClear
    \/ Restart
    \/ Tick

SpecColon == Init /\ [][NextColon]_vars

(***************************************************************************)
(* C32  A comment encoded as '<timestamp>: <text>' and split on the first  *)
(* ': ' gives back the timestamp and the text, also for a text that holds  *)
(* ': ' or begins with a colon: a save stores the stripped text of the     *)
(* field unaltered in the Note Store and in the table, under the timestamp *)
(* of the save, and a restart reloads every comment as it was.             *)
(***************************************************************************)
C32_EncodeSplitRoundTrip ==
    [][/\ (dynamic_action = "save_note" /\ updating_comment_index = None
             /\ PressDynamicButton)
          => /\ SavedIdentifier \in DOMAIN notes'
             /\ SplitOnce(notes'[SavedIdentifier][Len(notes'[SavedIdentifier])])
                    = <<Strftime(now), SavedText>>
             /\ db'[Len(db')] = <<SavedIdentifier, Strftime(now), SavedText>>
       /\ Restart => notes' = notes]_vars

\* the table holds a comment whose text begins with a colon and a comment
\* whose text holds ": ", and the Note Store holds them as loaded
C32_Witness ==
    /\ Len(db) = 2
    /\ \E i, j \in DOMAIN db :
          /\ db[i][3][1] = ":"
          /\ db[j][3] = <<"x", ":", Sp, "y">>
    /\ notes = StoredNotes

============================================================================
